---- MODULE Spec2Model ----
(***************************************************************************)
(* sc2remap: the event loop of src/main.rs, its keyboard (layer key)       *)
(* handler and its mouse (wheel tap) handler, writing to one uinput        *)
(* device.                                                                 *)
(*                                                                         *)
(* An InputEvent is a record [time, type, code, value].  The variable out  *)
(* is the stream of events written to the virtual device, in write order.  *)
(***************************************************************************)
EXTENDS Integers, Sequences, FiniteSets, TLC

\* ------------------------------------------------------------ bounds
\* keyboard events of one run of SpecRemap (the mouse is silent there)
MaxKbd == 6
\* keyboard plus mouse events of one run of Spec
MaxEvents == 4
\* events a device buffer holds unread in SpecLive (the sources never stop
\* there) and in SpecRemap
MaxQueue == 2
\* events the candidates send during role identification in SpecIdent
MaxIdent == 3

\* ------------------------------------------------------------ codes
None == "None"

EV_KEY == "EV_KEY"
EV_REL == "EV_REL"
EV_SYN == "EV_SYN"
EV_MSC == "EV_MSC"

KEY_GRAVE == "KEY_GRAVE"
KEY_1 == "KEY_1"
KEY_2 == "KEY_2"
KEY_LEFTCTRL == "KEY_LEFTCTRL"
BTN_LEFT == "BTN_LEFT"
KEY_PAGEUP == "KEY_PAGEUP"
KEY_PAGEDOWN == "KEY_PAGEDOWN"
REL_WHEEL == "REL_WHEEL"
REL_X == "REL_X"
MSC_SCAN == "MSC_SCAN"
SYN_REPORT == "SYN_REPORT"

\* the eight keys keymap leaves unmapped
Modifiers ==
  { "KEY_LEFTCTRL", "KEY_RIGHTCTRL", "KEY_LEFTSHIFT", "KEY_RIGHTSHIFT",
    "KEY_LEFTALT", "KEY_RIGHTALT", "KEY_LEFTMETA", "KEY_RIGHTMETA" }

\* the two device roles of the event loop
Devices == {"keeb", "mouse"}

\* keys of the keyboard pressed in SpecRemap, in Spec and in SpecLive
RemapKeys == {KEY_GRAVE, KEY_1, KEY_2}
LoopKeys == {KEY_GRAVE, KEY_1, KEY_LEFTCTRL}
LiveKeys == {KEY_1}

Event(t, ty, c, v) == [time |-> t, type |-> ty, code |-> c, value |-> v]

VARIABLES
  state,      \* State {current_key, next_key, held}
  out,        \* events written to the uinput device, in order
  buf,        \* per device: events the kernel holds, not yet read
  pc,         \* where the loop is: "wait" (epoll::wait), "keeb", "mouse" (in process_event)
  epoll_buf,  \* data of the last readiness notification
  down,       \* keys physically down on the keyboard
  clock,      \* number of events the sources produced (their timestamps)
  prod,       \* per device: every event the source produced, in order
  deliv,      \* per device: every event passed to the handler, in order
  last,       \* the last handler call: event, writes, State and down before
              \* it, and the event whose write failed (NoEvent when none did)
  prev,       \* the handler call before last
  captured,   \* next_key at the last layer-key press (value 1)
  seen,       \* keys down according to the events the keyboard handler got
  rec,        \* whether the run records out, prod, deliv, last, prev
  ident       \* role identification: keeb_id, mouse_id, the candidates' unread
              \* events, where its loop is, and the last event it classified

vars == <<state, out, buf, pc, epoll_buf, down, clock, prod, deliv, last,
          prev, captured, seen, rec, ident>>

\* ------------------------------------------------------------ keymap
\* every key mapped, the modifiers too
keymap_all(key) == key

keymap(key) == IF key \in Modifiers THEN None ELSE key

\* ------------------------------------------------------------ sink
\* a tap that ends at the first SYN_REPORT
inject_btn_short(time, btn) ==
  << Event(time, EV_KEY, btn, 1), Event(time, EV_SYN, SYN_REPORT, 0) >>

\* inject_btn: the four writes of a tap
inject_btn(time, btn) ==
  << Event(time, EV_KEY, btn, 1),
     Event(time, EV_SYN, SYN_REPORT, 0),
     Event(time, EV_KEY, btn, 0),
     Event(time, EV_SYN, SYN_REPORT, 0) >>

\* ------------------------------------------------------------ handlers
\* A handler maps (State, event) to the new State and the events it writes.

\* the layer key's release forwarded as it came
GraveRelease_raw(s, event) ==
  [state |-> [s EXCEPT !.current_key = None], writes |-> << event >>]

\* KEY_GRAVE with value 0
GraveRelease(s, event) ==
  IF s.current_key # None
    THEN [state  |-> [s EXCEPT !.current_key = None],
          writes |-> << [event EXCEPT !.code = s.current_key] >>]
    ELSE [state |-> s, writes |-> << event >>]

\* no synthetic release before the press
GravePress_norelease(s, event) ==
  [state  |-> [s EXCEPT !.current_key = s.next_key],
   writes |-> << [event EXCEPT !.code = s.next_key] >>]

\* the burst of a collision cut after its synthetic release
GravePress_releaseonly(s, event) ==
  LET s1 == [s EXCEPT !.current_key = s.next_key]
  IN  [state  |-> s1,
       writes |-> IF event.value = 1 /\ s1.held
                    THEN << [event EXCEPT !.value = 0, !.code = s1.next_key] >>
                    ELSE << [event EXCEPT !.code = s1.next_key] >>]

\* KEY_GRAVE with any other value (press, autorepeat)
GravePress(s, event) ==
  LET s1 == [s EXCEPT !.current_key = s.next_key]
  IN  [state  |-> s1,
       writes |-> (IF event.value = 1 /\ s1.held
                     THEN << [event EXCEPT !.value = 0, !.code = s1.next_key] >>
                     ELSE << >>)
                  \o << [event EXCEPT !.code = s1.next_key] >>]

\* no synthetic release when the pressed key is the layer's current key
OtherKey_norelease(s, event) ==
  LET mapped == keymap(event.code)
  IN  IF mapped # None
        THEN IF event.value = 0
               THEN [state  |-> IF mapped = s.next_key
                                  THEN [s EXCEPT !.held = FALSE] ELSE s,
                     writes |-> << event >>]
               ELSE [state  |-> [s EXCEPT !.next_key = mapped, !.held = TRUE],
                     writes |-> << event >>]
        ELSE [state |-> s, writes |-> << event >>]

\* every release of a mapped key clears held
OtherKey_anyrelease(s, event) ==
  LET mapped == keymap(event.code)
  IN  IF mapped # None
        THEN IF event.value = 0
               THEN [state |-> [s EXCEPT !.held = FALSE], writes |-> << event >>]
               ELSE LET s1 == [s EXCEPT !.next_key = mapped, !.held = TRUE]
                    IN  [state  |-> s1,
                         writes |-> (IF s1.current_key = mapped
                                       THEN << [event EXCEPT !.value = 0] >>
                                       ELSE << >>)
                                    \o << event >>]
        ELSE [state |-> s, writes |-> << event >>]

\* next_key and held set by a press (value 1) only, not by an autorepeat
OtherKey_pressonly(s, event) ==
  LET mapped == keymap(event.code)
  IN  IF mapped # None
        THEN IF event.value = 0
               THEN [state  |-> IF mapped = s.next_key
                                  THEN [s EXCEPT !.held = FALSE] ELSE s,
                     writes |-> << event >>]
               ELSE LET s1 == IF event.value = 1
                                THEN [s EXCEPT !.next_key = mapped, !.held = TRUE]
                                ELSE s
                    IN  [state  |-> s1,
                         writes |-> (IF s1.current_key = mapped
                                       THEN << [event EXCEPT !.value = 0] >>
                                       ELSE << >>)
                                    \o << event >>]
        ELSE [state |-> s, writes |-> << event >>]

\* any other key
OtherKey(s, event) ==
  LET mapped == keymap(event.code)
  IN  IF mapped # None
        THEN IF event.value = 0
               THEN [state  |-> IF mapped = s.next_key
                                  THEN [s EXCEPT !.held = FALSE] ELSE s,
                     writes |-> << event >>]
               ELSE LET s1 == [s EXCEPT !.next_key = mapped, !.held = TRUE]
                    IN  [state  |-> s1,
                         writes |-> (IF s1.current_key = mapped
                                       THEN << [event EXCEPT !.value = 0] >>
                                       ELSE << >>)
                                    \o << event >>]
        ELSE [state |-> s, writes |-> << event >>]

\* every key event but the layer key's goes through the other-key arm, the
\* modifiers too, whose state change is then OtherKey's
KeebHandler_modifiers(s, event) ==
  IF event.type = EV_KEY /\ event.code = KEY_GRAVE /\ event.value = 0
    THEN GraveRelease(s, event)
  ELSE IF event.type = EV_KEY /\ event.code = KEY_GRAVE
    THEN GravePress(s, event)
  ELSE IF event.type = EV_KEY
    THEN LET r == OtherKey(s, event)
         IN  IF event.code \in Modifiers
               THEN [r EXCEPT !.state.next_key = event.code,
                              !.state.held = (event.value # 0)]
               ELSE r
  ELSE [state |-> s, writes |-> << event >>]

\* the closure passed to process_event for the keyboard
KeebHandler(s, event) ==
  IF event.type = EV_KEY /\ event.code = KEY_GRAVE /\ event.value = 0
    THEN GraveRelease(s, event)
  ELSE IF event.type = EV_KEY /\ event.code = KEY_GRAVE
    THEN GravePress(s, event)
  ELSE IF event.type = EV_KEY
    THEN OtherKey(s, event)
  ELSE [state |-> s, writes |-> << event >>]

\* the closure passed to process_event for the mouse
MouseHandler(s, event) ==
  IF event.type = EV_REL /\ event.code = REL_WHEEL /\ event.value = 1
    THEN [state |-> s, writes |-> inject_btn(event.time, KEY_PAGEUP)]
  ELSE IF event.type = EV_REL /\ event.code = REL_WHEEL /\ event.value = -1
    THEN [state |-> s, writes |-> inject_btn(event.time, KEY_PAGEDOWN)]
  ELSE [state |-> s, writes |-> << >>]

Handle(dev, s, event) ==
  IF dev = "keeb" THEN KeebHandler(s, event) ELSE MouseHandler(s, event)

\* ------------------------------------------------------------ sources
\* What a keyboard can send next: a key goes down only when it is up, and is
\* released or autorepeated only while it is down.
KeyValues(d, k) == IF k \in d THEN {0, 2} ELSE {1}

Phys(d, event) ==
  IF event.type # EV_KEY THEN d
  ELSE IF event.value = 0 THEN d \ {event.code}
  ELSE d \cup {event.code}

KeebEvents(keys, d, t) ==
  UNION { { Event(t, EV_KEY, k, v) : v \in KeyValues(d, k) } : k \in keys }
    \cup { Event(t, EV_SYN, SYN_REPORT, 0) }

MouseEvents(t) ==
  { Event(t, EV_REL, REL_WHEEL, 1), Event(t, EV_REL, REL_WHEEL, -1),
    Event(t, EV_REL, REL_X, 1) }

\* in SpecLive (rec = FALSE) the sources repeat a smaller set of events for ever
SourceEvents(dev, d, t) ==
  IF dev = "keeb" THEN KeebEvents(IF rec THEN LoopKeys ELSE LiveKeys, d, t)
  ELSE IF rec THEN MouseEvents(t)
  ELSE { Event(t, EV_REL, REL_WHEEL, 1) }

\* ------------------------------------------------------------ role identification
\* the device nodes /dev/input/eventN init_device could open, by id
Candidates == {"event0", "event1", "event2"}

\* the codes of the first arm of the closure
MouseButtons == { BTN_LEFT, "BTN_RIGHT", "BTN_MIDDLE", "BTN_EXTRA", "BTN_SIDE" }

\* what a candidate can send while roles are identified; a node can carry keys
\* and a pointer, and a key can be down from before the start
IdentEvents ==
  { Event(0, EV_KEY, BTN_LEFT, v) : v \in {0, 1} }
    \cup { Event(0, EV_KEY, KEY_1, v) : v \in {0, 1, 2} }
    \cup { Event(0, EV_REL, REL_X, 1), Event(0, EV_SYN, SYN_REPORT, 0) }

\* the second arm taken whenever the first does not assign the mouse
Classify_elseif(keeb_id, mouse_id, id, event) ==
  IF /\ \/ event.type = EV_KEY /\ event.code \in MouseButtons
        \/ event.type = EV_REL
     /\ mouse_id = None
    THEN [keeb_id |-> keeb_id, mouse_id |-> id]
  ELSE IF event.type = EV_KEY /\ event.value = 0 /\ keeb_id = None
    THEN [keeb_id |-> id, mouse_id |-> mouse_id]
  ELSE [keeb_id |-> keeb_id, mouse_id |-> mouse_id]

\* the closure of the identification loop: the match on event_code, first
\* arm first, and the test inside the arm taken
Classify(keeb_id, mouse_id, id, event) ==
  IF \/ event.type = EV_KEY /\ event.code \in MouseButtons
     \/ event.type = EV_REL
    THEN IF mouse_id = None
           THEN [keeb_id |-> keeb_id, mouse_id |-> id]
           ELSE [keeb_id |-> keeb_id, mouse_id |-> mouse_id]
  ELSE IF event.type = EV_KEY
    THEN IF event.value = 0 /\ keeb_id = None
           THEN [keeb_id |-> id, mouse_id |-> mouse_id]
           ELSE [keeb_id |-> keeb_id, mouse_id |-> mouse_id]
  ELSE [keeb_id |-> keeb_id, mouse_id |-> mouse_id]

\* (keeb_id, mouse_id) = (None, None), nothing read yet
Ident0 ==
  [keeb_id |-> None, mouse_id |-> None, pc |-> "wait", id |-> None,
   bufs |-> [c \in Candidates |-> << >>], n |-> 0,
   last |-> [id |-> None, event |-> Event(0, None, None, 0),
             keeb_id |-> None, mouse_id |-> None]]

\* a candidate makes an event available
IdentProduce(id) ==
  /\ ident.pc # "done"
  /\ ident.n < MaxIdent
  /\ \E event \in IdentEvents :
       ident' = [ident EXCEPT !.bufs[id] = Append(@, event), !.n = @ + 1]
  /\ UNCHANGED <<state, out, buf, pc, epoll_buf, down, clock, prod, deliv,
                 last, prev, captured, seen, rec>>

\* epoll::wait returns a candidate that has an event to read
IdentWait(id) ==
  /\ ident.pc = "wait"
  /\ ident.bufs[id] # << >>
  /\ ident' = [ident EXCEPT !.pc = "read", !.id = id]
  /\ UNCHANGED <<state, out, buf, pc, epoll_buf, down, clock, prod, deliv,
                 last, prev, captured, seen, rec>>

\* process_event: next_event returned Ok(event); the closure classifies it
IdentEventOk ==
  /\ ident.pc = "read"
  /\ ident.bufs[ident.id] # << >>
  /\ LET event == Head(ident.bufs[ident.id])
         r == Classify(ident.keeb_id, ident.mouse_id, ident.id, event)
     IN  ident' = [ident EXCEPT !.keeb_id = r.keeb_id,
                                !.mouse_id = r.mouse_id,
                                !.bufs[ident.id] = Tail(@),
                                !.last = [id |-> ident.id, event |-> event,
                                          keeb_id |-> ident.keeb_id,
                                          mouse_id |-> ident.mouse_id]]
  /\ UNCHANGED <<state, out, buf, pc, epoll_buf, down, clock, prod, deliv,
                 last, prev, captured, seen, rec>>

\* process_event: next_event returned WouldBlock; the loop returns
\* (keeb_id, mouse_id) when both are Some, and waits again when not
IdentWouldBlock ==
  /\ ident.pc = "read"
  /\ ident.bufs[ident.id] = << >>
  /\ ident' = [ident EXCEPT !.pc = IF ident.keeb_id # None /\ ident.mouse_id # None
                                     THEN "done" ELSE "wait"]
  /\ UNCHANGED <<state, out, buf, pc, epoll_buf, down, clock, prod, deliv,
                 last, prev, captured, seen, rec>>

NextIdent ==
  \/ \E id \in Candidates : IdentProduce(id)
  \/ \E id \in Candidates : IdentWait(id)
  \/ IdentEventOk
  \/ IdentWouldBlock

\* ------------------------------------------------------------ initial state
NoEvent == Event(0, None, None, 0)

State0 == [current_key |-> None, next_key |-> KEY_GRAVE, held |-> FALSE]

NoCall == [dev |-> None, event |-> NoEvent, writes |-> << >>,
           state |-> State0, down |-> {}, failed |-> NoEvent]

InitCommon ==
  /\ state = State0
  /\ out = << >>
  /\ buf = [d \in Devices |-> << >>]
  /\ pc = "wait"
  /\ epoll_buf = None
  /\ down = {}
  /\ clock = 0
  /\ prod = [d \in Devices |-> << >>]
  /\ deliv = [d \in Devices |-> << >>]
  /\ last = NoCall
  /\ prev = NoCall
  /\ captured = None
  /\ seen = {}
  /\ ident = Ident0

Init == InitCommon /\ rec = TRUE

InitLive == InitCommon /\ rec = FALSE

\* ------------------------------------------------------------ the event loop
IsGravePress(dev, event) ==
  dev = "keeb" /\ event.type = EV_KEY /\ event.code = KEY_GRAVE /\ event.value = 1

\* One call f(event) of the closure of branch dev: the State, the writes,
\* and what the run records of them.
Call(dev, event) ==
  LET r == Handle(dev, state, event)
  IN  /\ state' = r.state
      /\ out' = IF rec THEN out \o r.writes ELSE out
      /\ deliv' = IF rec THEN [deliv EXCEPT ![dev] = Append(@, event)] ELSE deliv
      /\ last' = IF rec THEN [dev |-> dev, event |-> event, writes |-> r.writes,
                              state |-> state, down |-> seen,
                              failed |-> NoEvent]
                        ELSE last
      /\ prev' = IF rec THEN last ELSE prev
      /\ captured' = IF rec /\ IsGravePress(dev, event) THEN state.next_key
                     ELSE captured
      /\ seen' = IF rec /\ dev = "keeb" THEN Phys(seen, event) ELSE seen

\* the device a branch of the loop reads (keeb_device, mouse_device)
ReadFrom_keeb(branch) == "keeb"

ReadFrom(branch) == branch

\* where process_event goes after f(event): round the loop again
AfterEvent_break(branch) == "wait"

AfterEvent(branch) == branch

\* A source makes an event available.
Produce(dev) ==
  /\ IF rec THEN clock < MaxEvents ELSE Len(buf[dev]) < MaxQueue
  /\ \E event \in SourceEvents(dev, down, clock) :
       /\ buf' = [buf EXCEPT ![dev] = Append(@, event)]
       /\ down' = IF dev = "keeb" THEN Phys(down, event) ELSE down
       /\ prod' = IF rec THEN [prod EXCEPT ![dev] = Append(@, event)] ELSE prod
  /\ clock' = IF rec THEN clock + 1 ELSE (clock + 1) % (2 * MaxQueue + 1)
  /\ UNCHANGED <<ident, state, out, pc, epoll_buf, deliv, last, prev, captured, seen, rec>>

\* epoll::wait returns a device that has an event to read, and the loop
\* enters the branch of that device.
EpollWait(dev) ==
  /\ pc = "wait"
  /\ buf[dev] # << >>
  /\ epoll_buf' = dev
  /\ pc' = dev
  /\ UNCHANGED <<ident, state, out, buf, down, clock, prod, deliv, last, prev,
                 captured, seen, rec>>

\* process_event: next_event returned Ok(event); f(event) is called.
ProcessEventOk(branch) ==
  /\ pc = branch
  /\ buf[ReadFrom(branch)] # << >>
  /\ Call(branch, Head(buf[ReadFrom(branch)]))
  /\ buf' = [buf EXCEPT ![ReadFrom(branch)] = Tail(@)]
  /\ pc' = AfterEvent(branch)
  /\ UNCHANGED <<ident, epoll_buf, down, clock, prod, rec>>

\* a failed write that is ignored: the closure returns and the loop goes on
ProcessEventFail_continue(branch) ==
  /\ rec
  /\ pc = branch
  /\ buf[ReadFrom(branch)] # << >>
  /\ LET event == Head(buf[ReadFrom(branch)])
         r == Handle(branch, state, event)
     IN  \E n \in 0..(Len(r.writes) - 1) :
           /\ state' = r.state
           /\ out' = out \o SubSeq(r.writes, 1, n)
           /\ deliv' = [deliv EXCEPT ![branch] = Append(@, event)]
           /\ last' = [dev |-> branch, event |-> event,
                       writes |-> SubSeq(r.writes, 1, n),
                       state |-> state, down |-> seen,
                       failed |-> r.writes[n + 1]]
           /\ prev' = last
           /\ seen' = IF branch = "keeb" THEN Phys(seen, event) ELSE seen
  /\ buf' = [buf EXCEPT ![ReadFrom(branch)] = Tail(@)]
  /\ pc' = AfterEvent(branch)
  /\ UNCHANGED <<ident, epoll_buf, down, clock, prod, captured, rec>>

\* process_event: f(event) is called and one of its writes to the uinput
\* device returns Err: the writes before it are done, expect panics, and the
\* process is gone (pc = "panic"; no action of the loop is enabled there).
\* Every arm of the closures changes State before its first write.
ProcessEventFail(branch) ==
  /\ rec
  /\ pc = branch
  /\ buf[ReadFrom(branch)] # << >>
  /\ LET event == Head(buf[ReadFrom(branch)])
         r == Handle(branch, state, event)
     IN  \E n \in 0..(Len(r.writes) - 1) :
           /\ state' = r.state
           /\ out' = out \o SubSeq(r.writes, 1, n)
           /\ deliv' = [deliv EXCEPT ![branch] = Append(@, event)]
           /\ last' = [dev |-> branch, event |-> event,
                       writes |-> SubSeq(r.writes, 1, n),
                       state |-> state, down |-> seen,
                       failed |-> r.writes[n + 1]]
           /\ prev' = last
           /\ seen' = IF branch = "keeb" THEN Phys(seen, event) ELSE seen
  /\ buf' = [buf EXCEPT ![ReadFrom(branch)] = Tail(@)]
  /\ pc' = "panic"
  /\ UNCHANGED <<ident, epoll_buf, down, clock, prod, captured, rec>>

\* process_event: next_event returned WouldBlock; back to epoll::wait.
ProcessEventWouldBlock(branch) ==
  /\ pc = branch
  /\ buf[ReadFrom(branch)] = << >>
  /\ pc' = "wait"
  /\ UNCHANGED <<ident, state, out, buf, epoll_buf, down, clock, prod, deliv, last,
                 prev, captured, seen, rec>>

Loop ==
  \E dev \in Devices :
    EpollWait(dev) \/ ProcessEventOk(dev) \/ ProcessEventWouldBlock(dev)

Next ==
  \/ \E dev \in Devices : Produce(dev)
  \/ \E dev \in Devices : EpollWait(dev)
  \/ \E dev \in Devices : ProcessEventOk(dev)
  \/ \E dev \in Devices : ProcessEventWouldBlock(dev)

Spec == Init /\ [][Next]_vars

\* role identification alone, before the event loop
SpecIdent == Init /\ [][NextIdent]_vars

\* the loop with a uinput device whose writes can fail
NextFail ==
  \/ Next
  \/ \E dev \in Devices : ProcessEventFail(dev)

SpecFail == Init /\ [][NextFail]_vars

\* The loop is one thread that always takes its next step, and epoll serves
\* the ready descriptors in turn.
SpecLive ==
  /\ InitLive
  /\ [][Next]_vars
  /\ WF_vars(Loop)
  /\ \A dev \in Devices : SF_vars(EpollWait(dev))

\* ------------------------------------------------------------ the keyboard alone
\* The loop while the mouse is silent: the keyboard makes an event available
\* at any moment (while the loop is in epoll::wait or inside process_event,
\* with events still unread), and the loop takes its own steps one by one.
ProduceRemap ==
  /\ rec
  /\ clock < MaxKbd
  /\ Len(buf["keeb"]) < MaxQueue
  /\ \E event \in KeebEvents(RemapKeys, down, clock) :
       /\ buf' = [buf EXCEPT !["keeb"] = Append(@, event)]
       /\ down' = Phys(down, event)
       /\ prod' = [prod EXCEPT !["keeb"] = Append(@, event)]
  /\ clock' = clock + 1
  /\ UNCHANGED <<ident, state, out, pc, epoll_buf, deliv, last, prev,
                 captured, seen, rec>>

NextRemap ==
  \/ ProduceRemap
  \/ EpollWait("keeb")
  \/ ProcessEventOk("keeb")
  \/ ProcessEventWouldBlock("keeb")

SpecRemap == Init /\ [][NextRemap]_vars

\* ------------------------------------------------------------ the output stream
IsKey(event, k) == event.type = EV_KEY /\ event.code = k

\* the keys of the events written
OutKeys == { out[i].code : i \in { j \in 1..Len(out) : out[j].type = EV_KEY } }

\* value of the last event of key k in seq, 0 when there is none: k is down
\* in seq when it is 1 or 2
LastValue(seq, k) ==
  LET I == { i \in 1..Len(seq) : IsKey(seq[i], k) }
  IN  IF I = {} THEN 0
      ELSE seq[CHOOSE i \in I : \A j \in I : j <= i].value

Last1(seq) == seq[Len(seq)]

IsGraveRelease(dev, event) ==
  dev = "keeb" /\ event.type = EV_KEY /\ event.code = KEY_GRAVE /\ event.value = 0

\* the output stream before the writes of the last handler call
OutBeforeLast == SubSeq(out, 1, Len(out) - Len(last.writes))

\* ------------------------------------------------------------ C1
\* C1 (no duplicate press): between any two press events (value 1) of one
\* key in the output stream there is a release (value 0) of that key.
NoDuplicatePress ==
  \A i, j \in 1..Len(out) :
    ( /\ i < j
      /\ out[i].type = EV_KEY /\ out[i].value = 1
      /\ IsKey(out[j], out[i].code) /\ out[j].value = 1 )
    => \E m \in (i + 1)..(j - 1) : IsKey(out[m], out[i].code) /\ out[m].value = 0

\* ------------------------------------------------------------ C2
\* C2 (no stuck key): once every physical key is released and every event is
\* handled, no key is down in the output stream.
NoStuckKey ==
  (down = {} /\ \A dev \in Devices : buf[dev] = << >>)
    => \A k \in OutKeys : LastValue(out, k) = 0

\* ------------------------------------------------------------ C3
\* C3 (late-binding release): the release of the layer key writes exactly one
\* event, the release of the key that was next_key when the layer key was
\* pressed (value 1), whatever arrived in between.
LateBindingRelease ==
  (IsGraveRelease(last.dev, last.event) /\ captured # None)
    => last.writes = << [last.event EXCEPT !.code = captured] >>

\* ------------------------------------------------------------ C4
\* C4 (collision resolution): when the layer key is pressed (value 1) while
\* next_key is physically down, the handler writes exactly the release of
\* next_key and then its press; and no press the layer-key press writes is of
\* a key that is down in the output stream at that write.
CollisionResolution ==
  IsGravePress(last.dev, last.event) =>
    LET nk == last.state.next_key
    IN  /\ nk \in last.down =>
             last.writes = << [last.event EXCEPT !.code = nk, !.value = 0],
                              [last.event EXCEPT !.code = nk] >>
        /\ \A i \in 1..Len(last.writes) :
             last.writes[i].value = 1 =>
               LastValue(OutBeforeLast \o SubSeq(last.writes, 1, i - 1),
                         last.writes[i].code) = 0

\* the layer key was pressed while next_key was held by a direct press
CollisionWitness ==
  /\ IsGravePress(last.dev, last.event)
  /\ last.state.next_key \in last.down
  /\ Len(last.writes) = 2

\* ------------------------------------------------------------ C5
\* C5 (passthrough): for every modifier key the output events of that key are
\* the keyboard's input events of that key handled so far: same events, same
\* order, same timestamps.
Passthrough ==
  \A k \in Modifiers :
    LET OfKey(event) == IsKey(event, k)
    IN  SelectSeq(out, OfKey) = SelectSeq(deliv["keeb"], OfKey)

\* a modifier was pressed and released while the layer key was engaged
PassthroughWitness ==
  /\ state.current_key # None
  /\ \E i, j \in 1..Len(out) :
       /\ i < j
       /\ IsKey(out[i], KEY_LEFTCTRL) /\ out[i].value = 1
       /\ IsKey(out[j], KEY_LEFTCTRL) /\ out[j].value = 0
       /\ \E m \in 1..(i - 1) : out[m].time < out[i].time /\ out[m].code # KEY_LEFTCTRL

\* ------------------------------------------------------------ C6
\* no key with a mapping was pressed (value 1 or 2) before the last two calls
NoRemappablePressBefore ==
  \A i \in 1..(Len(deliv["keeb"]) - 2) :
    LET e == deliv["keeb"][i]
    IN  ~ (e.type = EV_KEY /\ e.code # KEY_GRAVE /\ keymap(e.code) # None /\ e.value # 0)

LayerTap ==
  /\ IsGravePress(prev.dev, prev.event)
  /\ IsGraveRelease(last.dev, last.event)

\* C6 as claimed (layer symmetry): a layer-key press followed at once by the
\* layer-key release writes exactly press(next_key), release(next_key).
LayerSymmetryAlways ==
  LayerTap =>
    prev.writes \o last.writes =
      << [prev.event EXCEPT !.code = prev.state.next_key],
         [last.event EXCEPT !.code = prev.state.next_key] >>

\* C6 as amended: a layer-key press followed at once by the layer-key release
\* writes exactly press(next_key), release(next_key), preceded by a synthetic
\* release of next_key when held was true at the press; next_key is
\* KEY_GRAVE when no remappable key was pressed before.
LayerSymmetry ==
  LayerTap =>
    LET nk == prev.state.next_key
    IN  /\ prev.writes \o last.writes =
             (IF prev.state.held
                THEN << [prev.event EXCEPT !.code = nk, !.value = 0] >>
                ELSE << >>)
             \o << [prev.event EXCEPT !.code = nk],
                   [last.event EXCEPT !.code = nk] >>
        /\ NoRemappablePressBefore => (nk = KEY_GRAVE /\ ~ prev.state.held)

\* a layer tap with nothing held, after another key was pressed and released
LayerSymmetryWitness ==
  /\ LayerTap
  /\ ~ prev.state.held
  /\ prev.state.next_key # KEY_GRAVE
  /\ Len(prev.writes \o last.writes) = 2

\* ------------------------------------------------------------ C7
IsWheel(event, v) ==
  event.type = EV_REL /\ event.code = REL_WHEEL /\ event.value = v

\* the writes expected for a sequence of mouse events: one tap per wheel step
RECURSIVE Taps(_)
Taps(seq) ==
  IF seq = << >> THEN << >>
  ELSE LET e == Head(seq)
           key == IF IsWheel(e, 1) THEN KEY_PAGEUP
                  ELSE IF IsWheel(e, -1) THEN KEY_PAGEDOWN ELSE None
       IN  (IF key = None THEN << >>
            ELSE << [time |-> e.time, type |-> EV_KEY, code |-> key, value |-> 1],
                    [time |-> e.time, type |-> EV_SYN, code |-> SYN_REPORT, value |-> 0],
                    [time |-> e.time, type |-> EV_KEY, code |-> key, value |-> 0],
                    [time |-> e.time, type |-> EV_SYN, code |-> SYN_REPORT, value |-> 0] >>)
           \o Taps(Tail(seq))

\* the writes made for mouse events: those that carry a mouse event's time
MouseWrites ==
  LET times == { prod["mouse"][i].time : i \in 1..Len(prod["mouse"]) }
      FromMouse(event) == event.time \in times
  IN  SelectSeq(out, FromMouse)

\* C7 (mouse tap): the writes made for the mouse are, in order, one complete
\* tap (press, SYN_REPORT, release, SYN_REPORT) of KEY_PAGEUP per REL_WHEEL +1
\* and of KEY_PAGEDOWN per REL_WHEEL -1 handled, N taps for N wheel events.
MouseTap == MouseWrites = Taps(deliv["mouse"])

\* the same wheel step came twice while the loop was elsewhere, and both
\* were handled
MouseTapWitness ==
  /\ Len(deliv["mouse"]) >= 2
  /\ IsWheel(deliv["mouse"][1], 1)
  /\ IsWheel(deliv["mouse"][2], 1)
  /\ Len(deliv["keeb"]) >= 1
  /\ deliv["mouse"][2].time < Last1(deliv["keeb"]).time
  /\ Len(MouseWrites) = 8

\* ------------------------------------------------------------ C8
\* C8 (per-source ordering): for each source, the events handed to its
\* handler followed by the events still buffered are exactly the events the
\* source produced, in order: none skipped, duplicated or reordered.
PerSourceOrdering ==
  \A dev \in Devices : deliv[dev] \o buf[dev] = prod[dev]

\* both sources were served, and a mouse event was handled before a keyboard
\* event that came earlier
PerSourceOrderingWitness ==
  /\ Len(deliv["keeb"]) >= 2
  /\ Len(deliv["mouse"]) >= 1
  /\ buf["keeb"] # << >>
  /\ Head(buf["keeb"]).time < deliv["mouse"][1].time

\* ------------------------------------------------------------ C9
InBuf(dev, t) == \E i \in 1..Len(buf[dev]) : buf[dev][i].time = t

\* C9 (no starvation): every event available on a source is eventually read
\* and handed to its handler.
NoStarvation ==
  \A dev \in Devices : \A t \in 0..(2 * MaxQueue) :
    InBuf(dev, t) ~> ~ InBuf(dev, t)

\* ------------------------------------------------------------ C10
\* C10 (drain before wait): the loop is in process_event only for the source
\* epoll::wait just reported; it returns to epoll::wait only when that
\* source has nothing buffered; and outside epoll::wait it always has a next
\* step (no read blocks).
DrainBeforeWait ==
  /\ [](pc # "wait" => (pc = epoll_buf /\ ENABLED Loop))
  /\ [][(pc # "wait" /\ pc' = "wait") => (buf[pc] = << >> /\ buf'[pc] = << >>)]_vars

\* the loop is back in epoll::wait after the keyboard, which had two events
\* buffered, while a mouse event is still waiting
DrainBeforeWaitWitness ==
  /\ pc = "wait"
  /\ epoll_buf = "keeb"
  /\ last.dev = "keeb" /\ prev.dev = "keeb"
  /\ buf["keeb"] = << >>
  /\ buf["mouse"] # << >>
  /\ Head(buf["mouse"]).time > last.event.time

\* ------------------------------------------------------------ C13
\* a press or autorepeat (value 1 or 2) of a key other than the layer key that
\* has a mapping
IsMappedPress(event) ==
  /\ event.type = EV_KEY
  /\ event.code # KEY_GRAVE
  /\ keymap(event.code) # None
  /\ event.value # 0

IsMappedRelease(event) ==
  /\ event.type = EV_KEY
  /\ event.code # KEY_GRAVE
  /\ keymap(event.code) # None
  /\ event.value = 0

\* timestamps of the layer-key events (value 1 or 2) the handler got
GraveTimes ==
  { deliv["keeb"][i].time :
      i \in { j \in 1..Len(deliv["keeb"]) :
                /\ IsKey(deliv["keeb"][j], KEY_GRAVE)
                /\ deliv["keeb"][j].value # 0 } }

\* the layer key wrote a press of k that no later write releases
LayerPressUnreleased(k) ==
  \E i \in 1..Len(out) :
    /\ out[i].time \in GraveTimes
    /\ IsKey(out[i], k)
    /\ out[i].value # 0
    /\ \A j \in (i + 1)..Len(out) : ~ (IsKey(out[j], k) /\ out[j].value = 0)

\* C13 (current_key invariant): current_key = Some(k) exactly when the layer
\* key is physically down and the press of k it wrote has not been followed
\* by a release of k in the output stream.
CurrentKeyInvariant ==
  \A k \in RemapKeys :
    (state.current_key = k) <=> (KEY_GRAVE \in seen /\ LayerPressUnreleased(k))

\* ------------------------------------------------------------ C14
\* positions in the keyboard's handled events of the presses of mapped keys
MappedPresses ==
  { i \in 1..Len(deliv["keeb"]) : IsMappedPress(deliv["keeb"][i]) }

LastMappedPress == CHOOSE i \in MappedPresses : \A j \in MappedPresses : j <= i

\* C14 (held invariant): held is true exactly when the most recently pressed
\* (value 1 or 2) mapped non-layer key has had no release since that press;
\* it is false while no such key was pressed.
HeldInvariant ==
  state.held <=>
    /\ MappedPresses # {}
    /\ \A j \in (LastMappedPress + 1)..Len(deliv["keeb"]) :
         ~ ( /\ IsKey(deliv["keeb"][j], deliv["keeb"][LastMappedPress].code)
             /\ deliv["keeb"][j].value = 0 )

\* a key was pressed, then a second, and the first was released: held stays
HeldWitness ==
  /\ state.held
  /\ MappedPresses # {}
  /\ \E j \in (LastMappedPress + 1)..Len(deliv["keeb"]) : IsMappedRelease(deliv["keeb"][j])

\* ------------------------------------------------------------ C15
\* next_key is the mapping of the most recent press or autorepeat of a mapped
\* key, KEY_GRAVE when there was none
NextKeyIsLastPress ==
  state.next_key =
    IF MappedPresses = {} THEN KEY_GRAVE
    ELSE keymap(deliv["keeb"][LastMappedPress].code)

\* the handler call's result (writes, held, current_key) changes with the
\* value next_key had before it: the call read next_key
ReadNextKey(call) ==
  /\ call.dev = "keeb"
  /\ \E nk \in RemapKeys \ Modifiers :
       LET act == KeebHandler(call.state, call.event)
           alt == KeebHandler([call.state EXCEPT !.next_key = nk], call.event)
       IN  \/ alt.writes # act.writes
           \/ alt.state.held # act.state.held
           \/ alt.state.current_key # act.state.current_key

\* C15 as claimed (next_key invariant): next_key is the mapping of the most
\* recent press of a remappable key, and it is read only while the layer key
\* is down.
NextKeyReadOnlyLayerDown ==
  /\ NextKeyIsLastPress
  /\ ReadNextKey(last) => KEY_GRAVE \in seen

\* C15 as amended: next_key is the mapping of the most recent press or
\* autorepeat of a remappable key (KEY_GRAVE if none); it is read while the
\* layer key is down and by the release of a remappable key, nowhere else.
NextKeyInvariant ==
  /\ NextKeyIsLastPress
  /\ ReadNextKey(last) => (KEY_GRAVE \in seen \/ IsMappedRelease(last.event))

\* next_key keeps the pressed key's mapping after its release, and the layer
\* key press that follows reads it
NextKeyWitness ==
  /\ IsGravePress(last.dev, last.event)
  /\ IsMappedRelease(prev.event)
  /\ ReadNextKey(last)
  /\ state.next_key = prev.event.code
  /\ \E i \in MappedPresses : deliv["keeb"][i].value = 2 /\ i = LastMappedPress

\* ------------------------------------------------------------ C17
\* C17 (direct press of a remappable key): a press or autorepeat of a mapped
\* non-layer key k sets next_key = keymap(k) and held, leaves current_key,
\* and writes the raw event, preceded by a release of keymap(k) exactly when
\* current_key = Some(keymap(k)).
DirectPress ==
  (last.dev = "keeb" /\ IsMappedPress(last.event)) =>
    LET m == keymap(last.event.code)
    IN  /\ state.next_key = m
        /\ state.held
        /\ state.current_key = last.state.current_key
        /\ last.writes =
             IF last.state.current_key = m
               THEN << [time |-> last.event.time, type |-> EV_KEY, code |-> m,
                        value |-> 0],
                       last.event >>
               ELSE << last.event >>

\* a direct press of the key the layer key currently stands for
DirectPressWitness ==
  /\ last.dev = "keeb"
  /\ IsMappedPress(last.event)
  /\ last.state.current_key = last.event.code
  /\ Len(last.writes) = 2

\* ------------------------------------------------------------ C20
\* C20 (up/down symmetry, layer not engaged): while the layer key is
\* physically up, a non-layer key is down in the output stream exactly when
\* it is physically down.
UpDownSymmetry ==
  (KEY_GRAVE \notin down /\ \A dev \in Devices : buf[dev] = << >>) =>
    \A k \in RemapKeys \ {KEY_GRAVE} : (LastValue(out, k) # 0) <=> (k \in down)

\* ------------------------------------------------------------ C18
\* an event that is no key event of the layer key or of a remappable key on
\* the keyboard
IsFrameEvent(dev, event) ==
  \/ dev = "mouse"
  \/ dev = "keeb" /\ event.type # EV_KEY
  \/ dev = "keeb" /\ event.type = EV_KEY /\ event.code \in Modifiers

\* non-key events a keyboard node can send, and the events of a modifier
\* key the keyboard of Spec does not press
KeebFrameEvents(t) ==
  { Event(t, EV_SYN, SYN_REPORT, 0), Event(t, EV_MSC, MSC_SCAN, 41),
    Event(t, EV_REL, REL_X, 1) }
    \cup { Event(t, EV_KEY, "KEY_RIGHTSHIFT", v) : v \in {0, 1, 2} }

\* the writes of the input event stamped t
WritesOf(t) == { i \in 1..Len(out) : out[i].time = t }

\* C18 (state frame): a non-key event on the keyboard, a modifier-key event
\* and every mouse event leave State {current_key, next_key, held} as it was;
\* such a keyboard event is written exactly once, unchanged.  Checked for the
\* event the loop handled last, and for what the closures would do in the
\* state reached with a non-key event or an event of another modifier key;
\* every modifier key has no mapping.
StateFrame ==
  /\ IsFrameEvent(last.dev, last.event) =>
       /\ state = last.state
       /\ last.dev = "keeb" =>
            /\ last.writes = << last.event >>
            /\ Cardinality(WritesOf(last.event.time)) = 1
            /\ Last1(out) = last.event
  /\ \A k \in Modifiers : keymap(k) = None
  /\ \A event \in KeebFrameEvents(clock) :
       KeebHandler(state, event) = [state |-> state, writes |-> << event >>]
  /\ \A event \in MouseEvents(clock) : MouseHandler(state, event).state = state

\* a modifier-key event, a keyboard non-key event and a mouse tap were handled
\* while the layer was engaged with a key held
StateFrameWitness ==
  /\ last.dev = "keeb" /\ last.event.type = EV_KEY
  /\ last.event.code \in Modifiers
  /\ prev.dev = "mouse" /\ prev.writes # << >>
  /\ state.current_key # None
  /\ \E i \in 1..Len(deliv["keeb"]) : deliv["keeb"][i].type = EV_SYN
\* ------------------------------------------------------------ C19
\* the device whose handler got the input event stamped t
Origin(t) ==
  IF \E i \in 1..Len(deliv["mouse"]) : deliv["mouse"][i].time = t THEN "mouse"
  ELSE IF \E i \in 1..Len(deliv["keeb"]) : deliv["keeb"][i].time = t THEN "keeb"
  ELSE None

\* the keyboard event stamped t
KeebInput(t) ==
  deliv["keeb"][CHOOSE i \in 1..Len(deliv["keeb"]) : deliv["keeb"][i].time = t]

\* out[i] is a release the keyboard handler wrote for a press or autorepeat
IsSyntheticRelease(i) ==
  /\ Origin(out[i].time) = "keeb"
  /\ out[i].type = EV_KEY /\ out[i].value = 0
  /\ KeebInput(out[i].time).value # 0

\* C19 (atomic output bursts): the writes of one input event are contiguous
\* in the output stream (a write that has a later write of the same input
\* event is followed at once by one); the four events of a mouse tap follow each other
\* with no keyboard-derived event between them; a synthetic release is
\* followed at once by the press or raw event of the same keyboard event.
AtomicBursts ==
  /\ \A i, k \in 1..Len(out) :
       (i < k /\ out[i].time = out[k].time) => out[i + 1].time = out[i].time
  /\ \A i \in 1..Len(out) :
       (Origin(out[i].time) = "mouse" /\ (i = 1 \/ out[i - 1].time # out[i].time))
         => /\ i + 3 <= Len(out)
            /\ SubSeq(out, i, i + 3) = inject_btn(out[i].time, out[i].code)
  /\ \A i \in 1..Len(out) :
       IsSyntheticRelease(i)
         => /\ i < Len(out)
            /\ out[i + 1].time = out[i].time
            /\ out[i + 1].value # 0

\* a wheel event arrived before the keyboard event of a collision and was
\* handled after it: the tap follows the synthetic release and its press
AtomicBurstsWitness ==
  \E i, j \in 1..Len(out) :
    /\ i < j
    /\ IsSyntheticRelease(i)
    /\ Origin(out[j].time) = "mouse"
    /\ out[j].time < out[i].time
\* ------------------------------------------------------------ C12
\* what the closure of the last call writes when no write fails
Intended == Handle(last.dev, last.state, last.event).writes

\* C12 (sink failure is fatal, no retry): when a write to the uinput device
\* fails the process is gone at once; of the events of that call only those
\* before the failed write are in the output stream, the failed write and
\* the events after it (the rest of a tap, the press after a failed synthetic
\* release) are not; and from then on nothing is written and the process
\* stays gone.
SinkFailureFatal ==
  /\ [](last.failed # NoEvent =>
          /\ pc = "panic"
          /\ Len(last.writes) < Len(Intended)
          /\ last.writes = SubSeq(Intended, 1, Len(last.writes))
          /\ last.failed = Intended[Len(last.writes) + 1]
          /\ Cardinality(WritesOf(last.event.time)) = Len(last.writes)
          /\ Len(out) >= Len(last.writes)
          /\ SubSeq(out, Len(out) - Len(last.writes) + 1, Len(out)) = last.writes)
  /\ [][pc = "panic" => (out' = out /\ pc' = "panic")]_vars

\* a tap cut by a failed write after its press, with a keyboard event
\* waiting to be read that is never handled
SinkFailureWitness ==
  /\ pc = "panic"
  /\ last.dev = "mouse"
  /\ Len(last.writes) = 1
  /\ last.failed = Event(last.event.time, EV_SYN, SYN_REPORT, 0)
  /\ buf["keeb"] # << >>
\* ------------------------------------------------------------ C11
\* C11 (two distinct sources): when role identification returns, keeb_id and
\* mouse_id are different device nodes.
DistinctRoles ==
  ident.pc = "done" => ident.keeb_id # ident.mouse_id
\* ------------------------------------------------------------ C16
\* the roles after the event classified last
RolesNow == [keeb_id |-> ident.keeb_id, mouse_id |-> ident.mouse_id]

IsMouseSignature(event) ==
  \/ event.type = EV_KEY /\ event.code \in MouseButtons
  \/ event.type = EV_REL

\* C16 as claimed (classification rule): an event with a mouse-button or
\* relative-motion code makes its source the mouse when no mouse is chosen;
\* otherwise a key-class event with value 0 makes its source the keyboard when
\* no keyboard is chosen; otherwise no role changes.
ClassificationRuleElseIf ==
  ident.last.id # None =>
    LET e == ident.last.event
        k == ident.last.keeb_id
        m == ident.last.mouse_id
    IN  RolesNow =
          IF IsMouseSignature(e) /\ m = None
            THEN [keeb_id |-> k, mouse_id |-> ident.last.id]
          ELSE IF e.type = EV_KEY /\ e.value = 0 /\ k = None
            THEN [keeb_id |-> ident.last.id, mouse_id |-> m]
          ELSE [keeb_id |-> k, mouse_id |-> m]

\* C16 as amended (classification rule): an event with a mouse-button or
\* relative-motion code makes its source the mouse when no mouse is chosen
\* and changes no role when one is; a key-class event of any other code with
\* value 0 makes its source the keyboard when no keyboard is chosen; every
\* other event changes no role.  A key press or autorepeat never assigns the
\* keyboard role.
ClassificationRule ==
  ident.last.id # None =>
    LET e == ident.last.event
        k == ident.last.keeb_id
        m == ident.last.mouse_id
    IN  /\ (IsMouseSignature(e) /\ m = None)
             => RolesNow = [keeb_id |-> k, mouse_id |-> ident.last.id]
        /\ (IsMouseSignature(e) /\ m # None)
             => RolesNow = [keeb_id |-> k, mouse_id |-> m]
        /\ (~IsMouseSignature(e) /\ e.type = EV_KEY /\ e.value = 0 /\ k = None)
             => RolesNow = [keeb_id |-> ident.last.id, mouse_id |-> m]
        /\ (~IsMouseSignature(e) /\ ~(e.type = EV_KEY /\ e.value = 0 /\ k = None))
             => RolesNow = [keeb_id |-> k, mouse_id |-> m]
        /\ (e.type = EV_KEY /\ e.value # 0) => ident.keeb_id = k

\* a mouse-button release was classified with the mouse chosen and no
\* keyboard chosen, and assigned nothing
ClassificationRuleWitness ==
  /\ ident.last.id # None
  /\ ident.last.event = Event(0, EV_KEY, BTN_LEFT, 0)
  /\ ident.last.mouse_id # None
  /\ ident.last.keeb_id = None
  /\ ident.keeb_id = None
====
